---- MODULE Spec2Model ----
(***************************************************************************)
(* Season standings tracker (g_cadet_inst326_final_project.py).            *)
(*                                                                         *)
(* State: the three module-level dictionaries drivers_dict, teams_dict and *)
(* race_dict, the Driver and Team objects they refer to, the lines printed *)
(* by the handler of the current turn of main()'s loop, where main() is,   *)
(* and the handler called in this turn with the text it read.  A Python    *)
(* dict is a sequence of entries in insertion order (assigning to an       *)
(* existing key keeps the key's place).  Driver and Team objects live in   *)
(* the heaps driver_objs and team_objs and are referred to by their index, *)
(* because a replaced Driver object stays on its team's roster after       *)
(* drivers_dict has forgotten it.                                          *)
(*                                                                         *)
(* Text typed by the user is a sequence of one-character strings, so that  *)
(* split, strip, lower and int are computed and not assumed.               *)
(*                                                                         *)
(* Every action is one visit to a handler from the menu of main(): the     *)
(* handler reads one line and then the line DONE (or is ended by the line  *)
(* itself).  A visit that reads several lines has the effect of as many    *)
(* visits of one line.  finish_race is called from nowhere and is not an   *)
(* action.                                                                 *)
(***************************************************************************)
EXTENDS Integers, Sequences, FiniteSets, TLC

VARIABLES drivers_dict, teams_dict, race_dict, driver_objs, team_objs,
          n_results, out, pc, call

vars == <<drivers_dict, teams_dict, race_dict, driver_objs, team_objs,
          n_results, out, pc, call>>

registry == <<drivers_dict, teams_dict, race_dict, driver_objs, team_objs,
              n_results>>

(* Bounds of the model: Driver objects and RaceResult objects constructed, *)
(* in Spec and in SpecFixed.                                               *)
MaxDrivers == 2
MaxResults == 2
FixedDrivers == 2
FixedResults == 3

(* A reference that may be None is <<>> for None and <<x>> for the object x, *)
(* so that None compares with every value.                                  *)
None == <<>>
Some(x) == <<x>>
The(ref) == ref[1]

-----------------------------------------------------------------------------
(* Text: str.strip, str.split(','), str.lower, int(str).                   *)

Tail2(s) == SubSeq(s, 2, Len(s))
Front(s) == SubSeq(s, 1, Len(s) - 1)

RECURSIVE LStrip(_)
LStrip(s) == IF s # <<>> /\ Head(s) = " " THEN LStrip(Tail2(s)) ELSE s

RECURSIVE RStrip(_)
RStrip(s) == IF s # <<>> /\ s[Len(s)] = " " THEN RStrip(Front(s)) ELSE s

Strip(s) == RStrip(LStrip(s))

RECURSIVE SplitFrom(_, _, _)
SplitFrom(s, cur, acc) ==
    IF s = <<>> THEN Append(acc, cur)
    ELSE IF Head(s) = "," THEN SplitFrom(Tail2(s), <<>>, Append(acc, cur))
    ELSE SplitFrom(Tail2(s), Append(cur, Head(s)), acc)

Split(s) == SplitFrom(s, <<>>, <<>>)

StripAll(fields) == [i \in DOMAIN fields |-> Strip(fields[i])]

UpperCase == <<"A","B","C","D","E","F","G","H","I","J","K","L","M",
               "N","O","P","Q","R","S","T","U","V","W","X","Y","Z">>
LowerCase == <<"a","b","c","d","e","f","g","h","i","j","k","l","m",
               "n","o","p","q","r","s","t","u","v","w","x","y","z">>

LowerChar(c) ==
    IF \E i \in DOMAIN UpperCase : UpperCase[i] = c
    THEN LowerCase[CHOOSE i \in DOMAIN UpperCase : UpperCase[i] = c]
    ELSE c

Lower(s) == [i \in DOMAIN s |-> LowerChar(s[i])]

Digits == <<"0","1","2","3","4","5","6","7","8","9">>
IsDigit(c) == \E i \in DOMAIN Digits : Digits[i] = c
DigitVal(c) == (CHOOSE i \in DOMAIN Digits : Digits[i] = c) - 1

RECURSIVE DigitsVal(_, _)
DigitsVal(s, acc) ==
    IF s = <<>> THEN acc ELSE DigitsVal(Tail2(s), 10 * acc + DigitVal(Head(s)))

AllDigits(s) == s # <<>> /\ \A i \in DOMAIN s : IsDigit(s[i])

(* int(s): an optional sign and decimal digits, or ValueError.             *)
IntOk(s) ==
    IF s # <<>> /\ Head(s) \in {"+", "-"} THEN AllDigits(Tail2(s)) ELSE AllDigits(s)

IntVal(s) ==
    IF Head(s) = "-" THEN 0 - DigitsVal(Tail2(s), 0)
    ELSE IF Head(s) = "+" THEN DigitsVal(Tail2(s), 0)
    ELSE DigitsVal(s, 0)

DONE == <<"d","o","n","e">>

-----------------------------------------------------------------------------
(* dict.get, dict assignment and dict.values() on insertion-ordered dicts. *)

HasKey(d, k) == \E i \in DOMAIN d : d[i].key = k
IndexOf(d, k) == CHOOSE i \in DOMAIN d : d[i].key = k
Get(d, k) == IF HasKey(d, k) THEN Some(d[IndexOf(d, k)].val) ELSE None
Put(d, k, v) ==
    IF HasKey(d, k) THEN [d EXCEPT ![IndexOf(d, k)] = [key |-> k, val |-> v]]
    ELSE Append(d, [key |-> k, val |-> v])
Values(d) == [i \in DOMAIN d |-> d[i].val]
Keys(d) == {d[i].key : i \in DOMAIN d}

-----------------------------------------------------------------------------
(* Entities and the scoring table.                                         *)

Driver(name, team) ==
    [name |-> name, team |-> team, points |-> 0, position |-> None]

Team(name) == [name |-> name, points |-> 0, drivers |-> <<>>]

RaceResult(driver, position) == [driver |-> driver, position |-> position]

Race(name) == [name |-> name, results |-> <<>>]

(* The scale of the seasons before 2010.                                  *)
POINT_SCALE_Old == <<10, 8, 6, 5, 4, 3, 2, 1>>

POINT_SCALE == <<25, 18, 15, 12, 10, 8, 6, 4, 2, 1>>

ScaleGet(position) ==
    IF position \in DOMAIN POINT_SCALE THEN POINT_SCALE[position] ELSE 0

-----------------------------------------------------------------------------
(* print(f"..."): a printed line is its format and the values put in it.   *)

Line(fmt, args) == [fmt |-> fmt, args |-> args]

DriverFmt == "Driver: {name}, Team: {team}, Points: {points}, Position: {position}"
TeamFmt == "Position: {i}, Team: {name}, Points: {points}, Drivers: {drivers}"

InvalidInput == Line("Invalid input, please try again.", <<>>)
InvalidFormat ==
    Line("Invalid input, please provide data in format 'driver_name, team_name'.",
         <<>>)
InvalidPosition == Line("Invalid position.", <<>>)
InvalidName == Line("Invalid driver name or race name.", <<>>)

Init ==
    /\ drivers_dict = <<>>
    /\ teams_dict = <<>>
    /\ race_dict = <<>>
    /\ driver_objs = <<>>
    /\ team_objs = <<>>
    /\ n_results = 0
    /\ out = <<>>
    /\ pc = "choice"
    /\ call = <<>>

-----------------------------------------------------------------------------
(* add_driver: one line of the form  name, team .                          *)

(* if True: a Team is constructed for every line.                          *)
TeamMissing_Always(team) == TRUE

TeamMissing(team) == team = None

(* The new Team is not put into teams_dict.                                *)
StoreTeam_Skip(d, team_name, team) == d

StoreTeam(d, team_name, team) == Put(d, team_name, team)

StoreDriver(d, name, driver) == Put(d, name, driver)

(* team.drivers = [driver] in place of team.drivers.append(driver).         *)
Enrol_Replace(objs, team, driver) ==
    [objs EXCEPT ![team].drivers = <<driver>>]

Enrol(objs, team, driver) ==
    [objs EXCEPT ![team].drivers = Append(@, driver)]

add_driver(data) ==
    LET quiet == UNCHANGED <<drivers_dict, teams_dict, race_dict, driver_objs,
                             team_objs, n_results>>
    IN
    IF Lower(data) = DONE
    THEN out' = <<>> /\ quiet
    ELSE LET fields == StripAll(Split(data)) IN
         IF Len(fields) # 2
         THEN out' = <<InvalidFormat>> /\ quiet
         ELSE LET name == fields[1]
                  team_name == fields[2]
              IN
              IF name = <<>> \/ team_name = <<>>
              THEN out' = <<InvalidInput>> /\ quiet
              ELSE LET found == Get(teams_dict, team_name)
                       fresh == TeamMissing(found)
                       team == IF fresh THEN Len(team_objs) + 1 ELSE The(found)
                       objs == IF fresh THEN Append(team_objs, Team(team_name))
                               ELSE team_objs
                       driver == Len(driver_objs) + 1
                   IN
                   /\ teams_dict' = IF fresh
                                    THEN StoreTeam(teams_dict, team_name, team)
                                    ELSE teams_dict
                   /\ driver_objs' = Append(driver_objs, Driver(name, team))
                   /\ drivers_dict' = StoreDriver(drivers_dict, name, driver)
                   /\ team_objs' = Enrol(objs, team, driver)
                   /\ out' = <<>>
                   /\ UNCHANGED <<race_dict, n_results>>

-----------------------------------------------------------------------------
(* add_race: one line holding a race name.                                 *)

(* race_dict.setdefault(name, race): a race already stored is kept.        *)
StoreRace_KeepExisting(d, name) ==
    IF HasKey(d, name) THEN d ELSE Put(d, name, Race(name))

StoreRace(d, name) == Put(d, name, Race(name))

add_race(line) ==
    LET quiet == UNCHANGED <<drivers_dict, teams_dict, race_dict, driver_objs,
                             team_objs, n_results>>
    IN
    IF Lower(line) = DONE
    THEN out' = <<>> /\ quiet
    ELSE LET name == Strip(line) IN
         IF name # <<>>
         THEN /\ race_dict' = StoreRace(race_dict, name)
              /\ out' = <<>>
              /\ UNCHANGED <<drivers_dict, teams_dict, driver_objs, team_objs,
                             n_results>>
         ELSE out' = <<>> /\ quiet

-----------------------------------------------------------------------------
(* record_race_result: the race name, then one line  driver, position .    *)
(* A ValueError leaves the handler and main() prints InvalidInput.          *)

(* int(position) < 0 in place of int(position) < 1.                       *)
PositionTooLow_Negative(position) == position < 0

PositionTooLow(position) == position < 1

Found(race, driver) == race # None /\ driver # None

AwardDriver(objs, driver, points) ==
    [objs EXCEPT ![driver].points = @ + points]

(* The line  result.driver.team.points += points  left out.                *)
AwardTeam_Skip(objs, team, points) == objs

AwardTeam(objs, team, points) ==
    [objs EXCEPT ![team].points = @ + points]

(* race.results.insert(0, result) in place of race.results.append(result). *)
AppendResult_Front(d, race, result) ==
    Put(d, race.name, [race EXCEPT !.results = <<result>> \o @])

AppendResult(d, race, result) ==
    Put(d, race.name, [race EXCEPT !.results = Append(@, result)])

record_race_result(race_input, line) ==
    LET race_name == Strip(race_input)
        data == Split(line)
        quiet == UNCHANGED <<drivers_dict, teams_dict, race_dict, driver_objs,
                             team_objs, n_results>>
    IN
    IF Len(data) < 2 \/ Lower(data[1]) = DONE
    THEN out' = <<>> /\ quiet
    ELSE IF Len(data) # 2
    THEN out' = <<InvalidInput>> /\ quiet
    ELSE LET driver_name == Strip(data[1])
             position == Strip(data[2])
         IN
         IF ~IntOk(position)
         THEN out' = <<InvalidInput>> /\ quiet
         ELSE IF PositionTooLow(IntVal(position))
         THEN out' = <<InvalidPosition>> /\ quiet
         ELSE LET race == Get(race_dict, race_name)
                  driver == Get(drivers_dict, driver_name)
              IN
              IF Found(race, driver)
              THEN LET result == RaceResult(The(driver), IntVal(position))
                       points == ScaleGet(result.position)
                   IN
                   /\ n_results' = n_results + 1
                   /\ race_dict' = AppendResult(race_dict, The(race), result)
                   /\ driver_objs' = AwardDriver(driver_objs, result.driver, points)
                   /\ team_objs' =
                          AwardTeam(team_objs, driver_objs[result.driver].team, points)
                   /\ out' = <<>>
                   /\ UNCHANGED <<drivers_dict, teams_dict>>
              ELSE out' = <<InvalidName>> /\ quiet

-----------------------------------------------------------------------------
(* sorted(values, key = points, reverse = True): stable, so values of      *)
(* equal points keep the order they had.                                   *)

RECURSIVE InsertDesc(_, _, _)
InsertDesc(x, sorted, key) ==
    IF sorted = <<>> THEN <<x>>
    ELSE IF key[Head(sorted)] >= key[x]
         THEN <<Head(sorted)>> \o InsertDesc(x, Tail2(sorted), key)
         ELSE <<x>> \o sorted

RECURSIVE SortedDescFrom(_, _, _)
SortedDescFrom(rest, acc, key) ==
    IF rest = <<>> THEN acc
    ELSE SortedDescFrom(Tail2(rest), InsertDesc(Head(rest), acc, key), key)

(* sorted(...) without reverse = True.                                     *)
SortedDrivers_Ascending(ids, objs) ==
    SortedDescFrom(ids, <<>>, [d \in DOMAIN objs |-> 0 - objs[d].points])

SortedDrivers(ids, objs) ==
    SortedDescFrom(ids, <<>>, [d \in DOMAIN objs |-> objs[d].points])

(* teams_dict.values() taken as it is.                                     *)
SortedTeams_Unsorted(ids, objs) == ids

SortedTeams(ids, objs) ==
    SortedDescFrom(ids, <<>>, [t \in DOMAIN objs |-> objs[t].points])

IndexIn(seq, x) == CHOOSE i \in DOMAIN seq : seq[i] = x

Enumerate(objs, sorted_drivers) ==
    [d \in DOMAIN objs |->
        IF \E i \in DOMAIN sorted_drivers : sorted_drivers[i] = d
        THEN [objs[d] EXCEPT !.position = Some(IndexIn(sorted_drivers, d))]
        ELSE objs[d]]

DriverStr(objs, teams, d) ==
    Line(DriverFmt,
         [name |-> objs[d].name, team |-> teams[objs[d].team].name,
          points |-> objs[d].points, position |-> objs[d].position])

TeamStr(objs, teams, i, t) ==
    Line(TeamFmt,
         [i |-> i, name |-> teams[t].name, points |-> teams[t].points,
          drivers |-> [k \in DOMAIN teams[t].drivers |->
                          objs[teams[t].drivers[k]].name]])

display_driver_position ==
    LET sorted_drivers == SortedDrivers(Values(drivers_dict), driver_objs)
        objs == Enumerate(driver_objs, sorted_drivers)
    IN
    /\ driver_objs' = objs
    /\ out' = [i \in DOMAIN sorted_drivers |->
                  DriverStr(objs, team_objs, sorted_drivers[i])]
    /\ UNCHANGED <<drivers_dict, teams_dict, race_dict, team_objs, n_results>>

display_team_standings ==
    LET sorted_teams == SortedTeams(Values(teams_dict), team_objs) IN
    /\ out' = [i \in DOMAIN sorted_teams |->
                  TeamStr(driver_objs, team_objs, i, sorted_teams[i])]
    /\ UNCHANGED <<drivers_dict, teams_dict, race_dict, driver_objs, team_objs,
                   n_results>>

-----------------------------------------------------------------------------
(* What the user types.                                                    *)

Sp(s) == <<" ">> \o s \o <<" ">>
Comma(a, b) == a \o <<",">> \o b

DriverNames == {<<"A">>, <<"B">>}

DriverLines ==
    {Comma(<<"A">>, <<"T">>), Comma(Sp(<<"A">>), Sp(<<"U">>)),
     Comma(<<"B">>, <<"U">>), Comma(<<"A">>, <<>>), Comma(<<" ">>, <<"T">>),
     <<"A">>, Comma(<<"A">>, Comma(<<"T">>, <<"U">>)), <<"D","o","n","e">>}

RaceLines == {<<"R">>, Sp(<<"S">>), <<" ">>, <<"D","O","N","E">>}

(* A visit to record_race_result: the race name typed, then the line.      *)
Visit(race_input, line) == [race_input |-> race_input, line |-> line]

BadVisits ==
    {Visit(<<"Q">>, Comma(<<"A">>, <<"1">>)),
     Visit(<<"R">>, Comma(<<"C">>, <<"1">>)),
     Visit(<<"R">>, Comma(<<"A">>, <<"0">>)),
     Visit(<<"Q">>, Comma(<<"C">>, <<"-","1">>)),
     Visit(<<"Q">>, Comma(<<"C">>, <<"x">>)),
     Visit(<<"R">>, Comma(<<"A">>, <<"x">>)),
     Visit(<<"R">>, Comma(<<"B">>, <<>>)),
     Visit(<<"R">>, Comma(<<"D","o","n","e">>, <<"1">>)),
     Visit(<<"R">>, <<"A">>),
     Visit(<<"R">>, Comma(<<"A">>, Comma(<<"1">>, <<"2">>)))}

ResultVisits ==
    {Visit(r, Comma(n, <<"1">>)) : r \in {<<"R">>, Sp(<<"S">>)}, n \in DriverNames}
    \cup BadVisits

FixedVisits ==
    {Visit(<<"R">>, Comma(<<"A">>, <<"1","1">>)),
     Visit(<<"R">>, Comma(Sp(<<"B">>), Sp(<<"2">>))),
     Visit(Sp(<<"S">>), Comma(<<"A">>, <<"1","0">>))}
    \cup BadVisits

-----------------------------------------------------------------------------
(* main(): at "choice" the menu has been printed and a choice is read; the *)
(* chosen handler runs on the text it reads and returns; the loop then     *)
(* prints the menu again.                                                  *)

Frame(op, text) == <<[op |-> op, text |-> text]>>

Returned == pc' = "returned"

AddDriver ==
    /\ pc = "choice"
    /\ \E data \in DriverLines :
          add_driver(data) /\ call' = Frame("add_driver", <<data>>)
    /\ Len(driver_objs') <= MaxDrivers
    /\ Returned

AddRace ==
    /\ pc = "choice"
    /\ \E line \in RaceLines :
          add_race(line) /\ call' = Frame("add_race", <<line>>)
    /\ Returned

RecordResult ==
    /\ pc = "choice"
    /\ \E v \in ResultVisits :
          /\ record_race_result(v.race_input, v.line)
          /\ call' = Frame("record_race_result", <<v.race_input, v.line>>)
    /\ n_results' <= MaxResults
    /\ Returned

DisplayPosition ==
    /\ pc = "choice"
    /\ display_driver_position
    /\ call' = Frame("display_driver_position", <<>>)
    /\ Returned

DisplayStandings ==
    /\ pc = "choice"
    /\ display_team_standings
    /\ call' = Frame("display_team_standings", <<>>)
    /\ Returned

Menu ==
    /\ pc = "returned"
    /\ pc' = "choice"
    /\ out' = <<>>
    /\ call' = <<>>
    /\ UNCHANGED registry

Next ==
    \/ AddDriver
    \/ AddRace
    \/ RecordResult
    \/ DisplayPosition
    \/ DisplayStandings
    \/ Menu

Spec == Init /\ [][Next]_vars

-----------------------------------------------------------------------------
(* The runs in which the registered drivers and races are fixed while      *)
(* results are recorded: nothing is registered once a RaceResult exists.   *)

FixedAddDriver ==
    /\ n_results = 0
    /\ pc = "choice"
    /\ \E data \in DriverLines :
          add_driver(data) /\ call' = Frame("add_driver", <<data>>)
    /\ Len(driver_objs') <= FixedDrivers
    /\ Returned

FixedAddRace ==
    /\ n_results = 0
    /\ pc = "choice"
    /\ \E line \in RaceLines :
          add_race(line) /\ call' = Frame("add_race", <<line>>)
    /\ Returned

FixedRecordResult ==
    /\ pc = "choice"
    /\ \E v \in FixedVisits :
          /\ record_race_result(v.race_input, v.line)
          /\ call' = Frame("record_race_result", <<v.race_input, v.line>>)
    /\ n_results' <= FixedResults
    /\ Returned

NextFixed ==
    \/ FixedAddDriver
    \/ FixedAddRace
    \/ FixedRecordResult
    \/ DisplayPosition
    \/ DisplayStandings
    \/ Menu

SpecFixed == Init /\ [][NextFixed]_vars

-----------------------------------------------------------------------------
(* Vocabulary of the properties.  In an action formula a primed name is    *)
(* the handler that ran in the step and what it read.                      *)

LastOp(c) == IF c = <<>> THEN "none" ELSE c[1].op
Read(c, i) == c[1].text[i]

(* record_result(race, driver, position): record_race_result read a line  *)
(* of two fields that is not the closing line.                             *)
RecIsCall(c) ==
    /\ LastOp(c) = "record_race_result"
    /\ Len(Split(Read(c, 2))) = 2
    /\ Lower(Split(Read(c, 2))[1]) # DONE
RecRace(c) == Strip(Read(c, 1))
RecDriver(c) == Strip(Split(Read(c, 2))[1])
RecPosition(c) == Strip(Split(Read(c, 2))[2])

(* register_driver(name, team_name): add_driver read two non-empty fields. *)
RegIsCall(c) ==
    /\ LastOp(c) = "add_driver"
    /\ Lower(Read(c, 1)) # DONE
    /\ Len(Split(Read(c, 1))) = 2
    /\ \A i \in 1..2 : Strip(Split(Read(c, 1))[i]) # <<>>
RegName(c) == Strip(Split(Read(c, 1))[1])
RegTeam(c) == Strip(Split(Read(c, 1))[2])

(* register_race(name): add_race read a name.                              *)
RaceIsCall(c) ==
    /\ LastOp(c) = "add_race"
    /\ Lower(Read(c, 1)) # DONE
    /\ Strip(Read(c, 1)) # <<>>
RaceName(c) == Strip(Read(c, 1))

Valid(p) == IntOk(p) /\ IntVal(p) >= 1
Registered(d, k) == HasKey(d, k)
Lookup(d, k) == The(Get(d, k))

(* The step is a successful record_result.                                 *)
RecSucceeds(c) ==
    /\ RecIsCall(c)
    /\ Valid(RecPosition(c))
    /\ Registered(race_dict, RecRace(c))
    /\ Registered(drivers_dict, RecDriver(c))

RECURSIVE SumSeq(_)
SumSeq(s) == IF s = <<>> THEN 0 ELSE Head(s) + SumSeq(Tail2(s))

(* The scoring table as the specification states it.                       *)
Score(position) ==
    CASE position = 1 -> 25 [] position = 2 -> 18 [] position = 3 -> 15
      [] position = 4 -> 12 [] position = 5 -> 10 [] position = 6 -> 8
      [] position = 7 -> 6 [] position = 8 -> 4 [] position = 9 -> 2
      [] position = 10 -> 1 [] OTHER -> 0

(* The points the results of one race give to the drivers in the set ds.   *)
RacePoints(results, ds) ==
    SumSeq([i \in DOMAIN results |->
               IF results[i].driver \in ds THEN Score(results[i].position) ELSE 0])

RecordedPoints(ds) ==
    SumSeq([i \in DOMAIN race_dict |-> RacePoints(race_dict[i].val.results, ds)])

DriversOf(t) == {d \in DOMAIN driver_objs : driver_objs[d].team = t}

RegisteredDrivers == {drivers_dict[i].val : i \in DOMAIN drivers_dict}
RegisteredTeams == {teams_dict[i].val : i \in DOMAIN teams_dict}

ResultsIn(d, race_name) ==
    IF HasKey(d, race_name) THEN Lookup(d, race_name).results ELSE <<>>

-----------------------------------------------------------------------------
(* C1: while the registered drivers and races are fixed, every driver's    *)
(* points are the sum of Score(position) over the results recorded for     *)
(* that driver, every team's points are that sum over the results of its   *)
(* drivers, and every successful record_result, whatever the position      *)
(* (above 10 too) and however often repeated, appends exactly one result   *)
(* to the named race.                                                      *)

C1_PointsAreSums ==
    /\ \A d \in DOMAIN driver_objs :
          driver_objs[d].points = RecordedPoints({d})
    /\ \A t \in DOMAIN team_objs :
          team_objs[t].points = RecordedPoints(DriversOf(t))

C1_AppendsOne ==
    LET c == call' IN
    RecSucceeds(c) =>
        ResultsIn(race_dict', RecRace(c)) =
            Append(ResultsIn(race_dict, RecRace(c)),
                   [driver |-> Lookup(drivers_dict, RecDriver(c)),
                    position |-> IntVal(RecPosition(c))])

C1_CumulativePoints == [](C1_PointsAreSums) /\ [][C1_AppendsOne]_vars

(* Reached: the same out-of-table result recorded a second time in one     *)
(* race, next to a scoring result of a team mate.                          *)
C1_Witness ==
    /\ RecIsCall(call) /\ RecPosition(call) = <<"1","1">> /\ out = <<>>
    /\ \E i \in DOMAIN race_dict :
          LET rs == race_dict[i].val.results IN
          /\ Len(rs) = 3
          /\ rs[2] = rs[3]
          /\ rs[3].position = 11
    /\ \E d \in DOMAIN driver_objs : driver_objs[d].points = 18
    /\ \E t \in DOMAIN team_objs :
          team_objs[t].points = 18 /\ Len(team_objs[t].drivers) = 2

-----------------------------------------------------------------------------
(* C2: record_result is refused for a position below 1 or not a number     *)
(* (InvalidPosition: the line "Invalid position.", or the ValueError of    *)
(* int() that main() reports) and, the position being valid, for a race or *)
(* driver that is not registered (UnknownEntity: the line "Invalid driver  *)
(* name or race name."); a refused call changes nothing in the registry.   *)

PositionRefused(p) ==
    IF IntOk(p) THEN out' = <<InvalidPosition>> ELSE out' = <<InvalidInput>>

C2_Step ==
    LET c == call' IN
    RecIsCall(c) =>
        /\ ~Valid(RecPosition(c)) =>
              PositionRefused(RecPosition(c)) /\ UNCHANGED registry
        /\ ( /\ Valid(RecPosition(c))
             /\ ~( /\ Registered(race_dict, RecRace(c))
                   /\ Registered(drivers_dict, RecDriver(c)) ) )
           => out' = <<InvalidName>> /\ UNCHANGED registry

C2_FailuresChangeNothing == [][C2_Step]_vars

(* Reached: position 0 refused for a registered driver and race, in a      *)
(* registry that holds points, a result and assigned positions.            *)
C2_Witness ==
    /\ RecIsCall(call) /\ RecPosition(call) = <<"0">>
    /\ Registered(race_dict, RecRace(call))
    /\ Registered(drivers_dict, RecDriver(call))
    /\ out = <<InvalidPosition>>
    /\ \E d \in RegisteredDrivers :
          driver_objs[d].points > 0 /\ driver_objs[d].position # None
    /\ \E i \in DOMAIN race_dict : race_dict[i].val.results # <<>>

-----------------------------------------------------------------------------
(* C3: driver_standings prints every registered driver once, in            *)
(* non-increasing order of points, and leaves the driver printed i-th with *)
(* position i, so that the positions of the N registered drivers are 1..N; *)
(* with no driver it prints nothing.                                       *)

C3_Step ==
    LastOp(call') = "display_driver_position" =>
        LET N == Len(drivers_dict) IN
        /\ Len(out') = N
        /\ {out'[i].args.name : i \in 1..N} = Keys(drivers_dict)
        /\ \A i \in 1..N :
              LET d == Lookup(drivers_dict, out'[i].args.name) IN
              /\ out'[i].fmt = DriverFmt
              /\ out'[i].args.points = driver_objs[d].points
              /\ driver_objs'[d].position = Some(i)
              /\ driver_objs'[d].points = driver_objs[d].points
        /\ \A i, j \in 1..N : i < j => out'[i].args.points >= out'[j].args.points
        /\ {driver_objs'[d].position : d \in RegisteredDrivers} = {Some(i) : i \in 1..N}
        /\ drivers_dict' = drivers_dict

C3_DriverStandings == [][C3_Step]_vars

(* Reached: two drivers printed, the one registered second first.          *)
C3_Witness ==
    /\ LastOp(call) = "display_driver_position"
    /\ Len(out) = 2
    /\ out[1].args.name = drivers_dict[2].key
    /\ out[1].args.points > out[2].args.points
    /\ driver_objs[drivers_dict[2].val].position = Some(1)
    /\ driver_objs[drivers_dict[1].val].position = Some(2)

-----------------------------------------------------------------------------
(* C4: team_standings prints every registered team once, in non-increasing *)
(* order of points, with the ranks 1..N, and changes nothing in the        *)
(* registry.                                                               *)

C4_Step ==
    LastOp(call') = "display_team_standings" =>
        LET N == Len(teams_dict) IN
        /\ Len(out') = N
        /\ {out'[i].args.name : i \in 1..N} = Keys(teams_dict)
        /\ \A i \in 1..N :
              /\ out'[i].fmt = TeamFmt
              /\ out'[i].args.i = i
              /\ out'[i].args.points =
                     team_objs[Lookup(teams_dict, out'[i].args.name)].points
        /\ \A i, j \in 1..N : i < j => out'[i].args.points >= out'[j].args.points
        /\ UNCHANGED registry

C4_TeamStandings == [][C4_Step]_vars

(* Reached: two teams printed, the one registered second first.            *)
C4_Witness ==
    /\ LastOp(call) = "display_team_standings"
    /\ Len(out) = 2
    /\ out[1].args.i = 1 /\ out[2].args.i = 2
    /\ out[1].args.name = teams_dict[2].key
    /\ out[1].args.points > out[2].args.points

-----------------------------------------------------------------------------
(* C5 as stated: every registered team's points are the sum of the points  *)
(* of the drivers now registered whose team it is, re-registration of a    *)
(* driver name included.                                                   *)

RegisteredPoints(t) ==
    SumSeq([d \in DOMAIN driver_objs |->
               IF d \in RegisteredDrivers /\ driver_objs[d].team = t
               THEN driver_objs[d].points ELSE 0])

RosterPoints(t) ==
    SumSeq([i \in DOMAIN team_objs[t].drivers |->
               driver_objs[team_objs[t].drivers[i]].points])

C5_TeamIsSumOfRegistered ==
    \A t \in RegisteredTeams : team_objs[t].points = RegisteredPoints(t)

(* C5 as amended: every registered team's points are the sum of the points *)
(* of the Driver objects on its member list, which keeps the replaced      *)
(* object of a re-registered name; that is the sum over the drivers now    *)
(* registered as long as no driver name has been registered twice.         *)

NothingReplaced == Len(driver_objs) = Len(drivers_dict)

C5_TeamIsSumOfRoster ==
    /\ \A t \in RegisteredTeams : team_objs[t].points = RosterPoints(t)
    /\ NothingReplaced => C5_TeamIsSumOfRegistered

(* Reached: a driver scored, was registered again on the same team and     *)
(* scored again, so the team holds twice what its registered driver holds. *)
C5_Witness ==
    /\ RecIsCall(call) /\ out = <<>>
    /\ ~NothingReplaced
    /\ \E t \in RegisteredTeams :
          /\ team_objs[t].points = 50
          /\ Len(team_objs[t].drivers) = 2
          /\ RegisteredPoints(t) = 25

-----------------------------------------------------------------------------
(* C6: a successful record_result appends one result to the end of the     *)
(* named race, adds one amount to the points of the driver and of the      *)
(* driver's team, and changes nothing else.                                *)

C6_Step ==
    LET c == call' IN
    RecSucceeds(c) =>
        LET r == RecRace(c)
            d == Lookup(drivers_dict, RecDriver(c))
            t == driver_objs[d].team
            gain == driver_objs'[d].points - driver_objs[d].points
            result == [driver |-> d, position |-> IntVal(RecPosition(c))]
        IN
        /\ race_dict' =
               [i \in DOMAIN race_dict |->
                   IF race_dict[i].key = r
                   THEN [key |-> r,
                         val |-> [name |-> race_dict[i].val.name,
                                  results |-> Append(race_dict[i].val.results,
                                                     result)]]
                   ELSE race_dict[i]]
        /\ driver_objs' = [driver_objs EXCEPT ![d].points = @ + gain]
        /\ team_objs' = [team_objs EXCEPT ![t].points = @ + gain]
        /\ UNCHANGED <<drivers_dict, teams_dict>>

C6_RecordFrame == [][C6_Step]_vars

(* Reached: a second result appended to a race, with another race, another *)
(* team and a driver of assigned position in the registry.                 *)
C6_Witness ==
    /\ RecIsCall(call) /\ out = <<>> /\ Valid(RecPosition(call))
    /\ Len(ResultsIn(race_dict, RecRace(call))) = 2
    /\ ResultsIn(race_dict, RecRace(call))[2].driver =
           Lookup(drivers_dict, RecDriver(call))
    /\ ResultsIn(race_dict, RecRace(call))[1].driver #
           Lookup(drivers_dict, RecDriver(call))
    /\ Len(race_dict) = 2
    /\ Len(teams_dict) = 2
    /\ \E d \in RegisteredDrivers : driver_objs[d].position # None

-----------------------------------------------------------------------------
(* C7: register_driver creates the team, with no points and no members,    *)
(* only when the name is new, stores a new driver of no points and no      *)
(* position under the name in place of any driver stored there, and        *)
(* appends it to the team's member list; a member list has one entry for   *)
(* every successful register_driver that named the team.                   *)

C7_Step ==
    LET c == call' IN
    RegIsCall(c) =>
        LET name == RegName(c)
            team_name == RegTeam(c)
            known == Registered(teams_dict, team_name)
            t == IF known THEN Lookup(teams_dict, team_name)
                 ELSE Len(team_objs) + 1
            before == IF known THEN team_objs
                      ELSE Append(team_objs,
                                  [name |-> team_name, points |-> 0,
                                   drivers |-> <<>>])
            d == Len(driver_objs) + 1
        IN
        /\ teams_dict' = IF known THEN teams_dict
                         ELSE Append(teams_dict, [key |-> team_name, val |-> t])
        /\ team_objs' = [before EXCEPT ![t].drivers = Append(@, d)]
        /\ driver_objs' =
               Append(driver_objs,
                      [name |-> name, team |-> t, points |-> 0, position |-> None])
        /\ Get(drivers_dict', name) = Some(d)
        /\ Keys(drivers_dict') = Keys(drivers_dict) \cup {name}
        /\ \A k \in Keys(drivers_dict) \ {name} :
              Get(drivers_dict', k) = Get(drivers_dict, k)
        /\ UNCHANGED race_dict

C7_OneEntryPerCall ==
    \A t \in DOMAIN team_objs :
        /\ Len(team_objs[t].drivers) = Cardinality(DriversOf(t))
        /\ {team_objs[t].drivers[i] : i \in DOMAIN team_objs[t].drivers} =
               DriversOf(t)

C7_RegisterDriver == [](C7_OneEntryPerCall) /\ [][C7_Step]_vars

(* Reached: a name registered again on its team: two entries of that name  *)
(* on the member list, the team's points kept, the new driver at zero.     *)
C7_Witness ==
    /\ RegIsCall(call)
    /\ LET t == Lookup(teams_dict, RegTeam(call))
           d == Lookup(drivers_dict, RegName(call))
       IN
       /\ team_objs[t].points = 25
       /\ Len(team_objs[t].drivers) = 2
       /\ team_objs[t].drivers[2] = d
       /\ driver_objs[team_objs[t].drivers[1]].name = driver_objs[d].name
       /\ driver_objs[team_objs[t].drivers[1]].points = 25
       /\ driver_objs[team_objs[t].drivers[1]].position = Some(1)
       /\ driver_objs[d].points = 0
       /\ driver_objs[d].position = None

-----------------------------------------------------------------------------
(* C8: the team of every registered driver is a team of the team registry. *)

C8_TeamsAreRegistered ==
    \A d \in RegisteredDrivers :
        /\ driver_objs[d].team \in RegisteredTeams
        /\ Get(teams_dict, team_objs[driver_objs[d].team].name) =
               Some(driver_objs[d].team)

(* Reached: a driver moved to a second team by registering the name again. *)
C8_Witness ==
    /\ RegIsCall(call)
    /\ ~NothingReplaced
    /\ Len(teams_dict) = 2
    /\ driver_objs[Lookup(drivers_dict, RegName(call))].team = teams_dict[2].val
    /\ \E i \in DOMAIN driver_objs :
          /\ driver_objs[i].name = RegName(call)
          /\ driver_objs[i].team = teams_dict[1].val

-----------------------------------------------------------------------------
(* C9: register_race leaves the race stored under the name with no         *)
(* results; results the name held are lost, and no points, no other race   *)
(* and no registration of a driver or team change.                         *)

C9_Step ==
    LET c == call' IN
    RaceIsCall(c) =>
        LET name == RaceName(c) IN
        /\ Get(race_dict', name) = Some([name |-> name, results |-> <<>>])
        /\ Keys(race_dict') = Keys(race_dict) \cup {name}
        /\ \A k \in Keys(race_dict) \ {name} :
              Get(race_dict', k) = Get(race_dict, k)
        /\ UNCHANGED <<drivers_dict, teams_dict, driver_objs, team_objs>>

C9_RegisterRace == [][C9_Step]_vars

(* Reached: a race registered again after a result: the driver's points    *)
(* outlive the result, and the other race keeps its result.                *)
C9_Witness ==
    /\ RaceIsCall(call)
    /\ ResultsIn(race_dict, RaceName(call)) = <<>>
    /\ \E d \in RegisteredDrivers :
          driver_objs[d].points = 25 /\ RecordedPoints({d}) = 0
    /\ \E i \in DOMAIN race_dict : race_dict[i].val.results # <<>>

-----------------------------------------------------------------------------
(* C10: in every step the registered teams stay registered, each under its *)
(* name and as the same Team; a team's points are never negative, never    *)
(* decrease, and change only in a successful record_result for one of its  *)
(* drivers.                                                                *)

C10_Step ==
    /\ Len(teams_dict') >= Len(teams_dict)
    /\ \A i \in DOMAIN teams_dict : teams_dict'[i] = teams_dict[i]
    /\ \A t \in RegisteredTeams :
          /\ team_objs'[t].name = team_objs[t].name
          /\ team_objs[t].points >= 0
          /\ team_objs'[t].points >= team_objs[t].points
          /\ team_objs'[t].points # team_objs[t].points =>
                 /\ RecSucceeds(call')
                 /\ driver_objs[Lookup(drivers_dict, RecDriver(call'))].team = t

C10_TeamsPersist == [][C10_Step]_vars

(* Reached: a driver registered again: the name is back at zero and the    *)
(* team still holds the points.                                            *)
C10_Witness ==
    /\ RegIsCall(call)
    /\ LET d == Lookup(drivers_dict, RegName(call))
           t == driver_objs[d].team
       IN
       /\ driver_objs[d].points = 0
       /\ team_objs[t].points = 25
       /\ RegisteredPoints(t) = 0
       /\ \E i \in DOMAIN driver_objs :
             /\ i # d
             /\ driver_objs[i].name = driver_objs[d].name
             /\ driver_objs[i].points = 25

====
